---- MODULE Spec2Model ----
(***************************************************************************)
(* A model of the sigma package: the death-birth simulation engine         *)
(* (sigma/simulation.py) and the exact first-order calculation             *)
(* (sigma/exact.py).                                                       *)
(*                                                                         *)
(* Numbers are exact rationals <<numerator, denominator>> in lowest terms  *)
(* with a positive denominator; the non-finite floating-point values the   *)
(* code can produce have a zero denominator: nan is <<0, 0>>, inf <<1, 0>> *)
(* and -inf <<-1, 0>>.  Nodes are numbered from 0 as in the source; Python *)
(* lists are TLA+ sequences, so Python position k is sequence position     *)
(* k+1.  Spec is a Population object under its methods, SpecExact one      *)
(* exact calculation, SpecRun a runner with its parallel tasks.            *)
(***************************************************************************)
EXTENDS Integers, Sequences, FiniteSets, TLC

VARIABLES
    args,       \* the arguments the Population constructor is called with
    pc,         \* "new" | "ready" | "returned" | "updating" | "raised"
    pop,        \* the Population object (NoPop before construction)
    err,        \* the exception that ended the last operation (NoErr if none)
    call,       \* the last completed method call and what it returned
    upd,        \* the frame of update_population while it runs
    hist,       \* history: the state right after each transition of the current
                \* update run (between runs: after the last transition made)
    run,        \* the frame of run_simulations / run_calculations
    tasks,      \* the per-mutation-rate tasks of the parallel map
    ex          \* the frame of one exact calculation (structure_coefficients)

vars == <<args, pc, pop, err, call, upd, hist, run, tasks, ex>>

(***************************************************************************)
(* Rational arithmetic                                                     *)
(***************************************************************************)
Abs(x) == IF x < 0 THEN -x ELSE x
Sign(x) == IF x < 0 THEN -1 ELSE IF x > 0 THEN 1 ELSE 0

RECURSIVE GCD(_, _)
GCD(a, b) == IF b = 0 THEN a ELSE GCD(b, a % b)

\* a zero denominator marks the non-finite floats: <<0,0>> is nan, <<1,0>> is
\* inf and <<-1,0>> is -inf
Norm(n, d) ==
    IF d = 0 THEN <<Sign(n), 0>>
    ELSE LET g == GCD(Abs(n), Abs(d))
             s == IF d < 0 THEN -1 ELSE 1
         IN  <<(s * n) \div g, (s * d) \div g>>

Q(n, d) == Norm(n, d)
Zero == <<0, 1>>
One == <<1, 1>>
Half == <<1, 2>>
NaN == <<0, 0>>
Inf == <<1, 0>>
IsFinite(x) == x[2] # 0
\* common factors are divided out before multiplying, which keeps the
\* intermediate integers small
RAdd(x, y) ==
    IF IsFinite(x) /\ IsFinite(y)
    THEN LET g == GCD(x[2], y[2])
         IN  Norm(x[1] * (y[2] \div g) + y[1] * (x[2] \div g), (x[2] \div g) * y[2])
    ELSE IF x = NaN \/ y = NaN THEN NaN
    ELSE IF ~IsFinite(x) /\ ~IsFinite(y) THEN (IF x = y THEN x ELSE NaN)
    ELSE IF ~IsFinite(x) THEN x ELSE y
RNeg(x) == <<-x[1], x[2]>>
RSub(x, y) == RAdd(x, RNeg(y))
RMul(x, y) ==
    IF IsFinite(x) /\ IsFinite(y)
    THEN LET g == GCD(Abs(x[1]), y[2])
             h == GCD(Abs(y[1]), x[2])
         IN  <<(x[1] \div g) * (y[1] \div h), (x[2] \div h) * (y[2] \div g)>>
    ELSE Norm(x[1] * y[1], x[2] * y[2])
\* 1/y in NumPy arithmetic: 1/0 is inf (with a warning), 1/inf is 0
RInv(y) ==
    IF y = NaN THEN NaN
    ELSE IF y[1] = 0 THEN Inf
    ELSE IF y[2] = 0 THEN Zero
    ELSE Norm(y[2], y[1])
RDiv(x, y) == RMul(x, RInv(y))
RLt(x, y) == x # NaN /\ y # NaN /\ x[1] * y[2] < y[1] * x[2]
RInt(k) == <<k, 1>>

RECURSIVE RSumSeq(_)
RSumSeq(s) == IF s = <<>> THEN Zero ELSE RAdd(Head(s), RSumSeq(Tail(s)))

(***************************************************************************)
(* Graphs (networkx.Graph): n nodes 0..n-1 and a set of undirected edges   *)
(***************************************************************************)
Path2 == [n |-> 2, edges |-> {{0, 1}}]
Path3 == [n |-> 3, edges |-> {{0, 1}, {1, 2}}]
Triangle == [n |-> 3, edges |-> {{0, 1}, {1, 2}, {0, 2}}]
EdgeAndIsolated == [n |-> 3, edges |-> {{0, 1}}]

Nodes(g) == 0 .. (g.n - 1)
NeighborSet(g, i) == {k \in Nodes(g) : {i, k} \in g.edges /\ k # i}
Degree(g, i) == Cardinality(NeighborSet(g, i))

RECURSIVE SortedSeq(_)
SortedSeq(S) ==
    IF S = {} THEN <<>>
    ELSE LET m == CHOOSE x \in S : \A y \in S : x <= y
         IN  <<m>> \o SortedSeq(S \ {m})

\* list(nx.neighbors(structure, i))
Neighbors(g, i) == SortedSeq(NeighborSet(g, i))
HasIsolatedNode(g) == \E i \in Nodes(g) : Degree(g, i) = 0

(***************************************************************************)
(* Python values handed to the constructor: a type tag with a string or a  *)
(* number payload.  A NumPy float64 drawn from an ndarray is an instance   *)
(* of float for isinstance, and is tagged "float64" only where the         *)
(* difference shows (division by zero).                                    *)
(***************************************************************************)
PyStr(s) == [type |-> "str", s |-> s, q |-> Zero]
PyInt(k) == [type |-> "int", s |-> "", q |-> RInt(k)]
PyFloat(n, d) == [type |-> "float", s |-> "", q |-> Q(n, d)]
NpFloat(n, d) == [type |-> "float64", s |-> "", q |-> Q(n, d)]

\* isinstance(x, float) or isinstance(x, int); numpy.float64 subclasses float
IsFloatOrInt(x) == x.type \in {"float", "float64", "int"}
IsStr(x) == x.type = "str"

\* str.lower on the strings that occur
Lower(s) ==
    CASE s = "FF" -> "ff"
      [] s = "PP" -> "pp"
      [] s = "Pp" -> "pp"
      [] s = "LSQR" -> "lsqr"
      [] OTHER -> s

NoErr == [kind |-> "", msg |-> ""]
Error(kind, msg) == [kind |-> kind, msg |-> msg]

NoPop == [constructed |-> FALSE]

(***************************************************************************)
(* Population.__init__: the checks in the order the constructor makes them *)
(***************************************************************************)
\* len(x) of a Python list or array, held as a function on 0..len-1
PyLen(x) == Cardinality(DOMAIN x)

\* mutation_rate<0 or mutation_rate>1
MutationRateOutsideOpenEnds(q) == ~RLt(Zero, q) \/ RLt(One, q)
MutationRateOutside(q) == RLt(q, Zero) \/ RLt(One, q)

PopulationInit(structure, state, social_good, b, c, mutation_rate, selection_intensity) ==
    LET population_size == structure.n
    IN
    IF PyLen(state) # population_size
    THEN [raised |-> TRUE,
          err |-> Error("ValueError", "Each individual must have a state.")]
    ELSE IF ~IsStr(social_good)
    THEN [raised |-> TRUE,
          err |-> Error("TypeError", "Social good must be a string.")]
    ELSE IF Lower(social_good.s) \notin {"ff", "pp"}
    THEN [raised |-> TRUE,
          err |-> Error("ValueError", "Social good must be 'ff' or 'pp'.")]
    ELSE IF ~IsFloatOrInt(mutation_rate)
    THEN [raised |-> TRUE,
          err |-> Error("TypeError", "Mutation rate must be a real number.")]
    ELSE IF MutationRateOutside(mutation_rate.q)
    THEN [raised |-> TRUE,
          err |-> Error("ValueError", "Mutation rate must be in [0, 1].")]
    ELSE IF ~IsFloatOrInt(selection_intensity)
    THEN [raised |-> TRUE,
          err |-> Error("TypeError", "Selection intensity must be a real number.")]
    ELSE IF RLt(selection_intensity.q, Zero)
    THEN [raised |-> TRUE,
          err |-> Error("ValueError", "Selection intensity must be non-negative.")]
    ELSE [raised |-> FALSE,
          err |-> NoErr,
          self |-> [constructed |-> TRUE,
                    structure |-> structure,
                    population_size |-> population_size,
                    state |-> state,
                    social_good |-> Lower(social_good.s),
                    b |-> b,
                    c |-> c,
                    mutation_rate |-> mutation_rate,
                    selection_intensity |-> selection_intensity]]

(***************************************************************************)
(* Population.mean_frequency and Population.payoff                         *)
(***************************************************************************)
\* a trait argument: an integer, or None
Trait(v) == [none |-> FALSE, v |-> v]
TraitNone == [none |-> TRUE, v |-> 0]

\* val==trait for a state entry val
EqTrait(val, trait) == ~trait.none /\ val = trait.v

\* len([key for key, val in enumerate(self._state) if val==trait])/self._population_size
MeanFrequencyOfOthers(self, trait) ==
    Q(Cardinality({key \in DOMAIN self.state : ~EqTrait(self.state[key], trait)}),
      self.population_size)
MeanFrequency(self, trait) ==
    Q(Cardinality({key \in DOMAIN self.state : EqTrait(self.state[key], trait)}),
      self.population_size)

\* the right-hand side assigned for one individual of the subset
PayoffOfIndividual(self, individual) ==
    LET neighbors == Neighbors(self.structure, individual)
        st(i) == RInt(self.state[i])
    IN  IF self.social_good = "ff"
        THEN RAdd(RMul(st(individual), RInt(-self.c)),
                  RSumSeq([k \in 1 .. Len(neighbors) |->
                            RMul(st(neighbors[k]),
                                 Q(self.b, Degree(self.structure, neighbors[k])))]))
        ELSE RAdd(RMul(st(individual),
                       RInt(-self.c * Degree(self.structure, individual))),
                  RSumSeq([k \in 1 .. Len(neighbors) |->
                            RMul(st(neighbors[k]), RInt(self.b))]))

\* subset.index(individual): the first position holding individual
IndexOf(subset, individual) ==
    CHOOSE k \in 1 .. Len(subset) :
        /\ subset[k] = individual
        /\ \A j \in 1 .. (k - 1) : subset[j] # individual

\* the loop of payoff: one assignment payoffs[subset.index(individual)] = ...
\* per element of subset, in order, starting from np.zeros((len(subset),))
RECURSIVE PayoffLoop(_, _, _, _)
PayoffLoop(self, subset, payoffs, pos) ==
    IF pos > Len(subset) THEN payoffs
    ELSE PayoffLoop(self, subset,
                    [payoffs EXCEPT ![IndexOf(subset, subset[pos])] =
                                        PayoffOfIndividual(self, subset[pos])],
                    pos + 1)

Payoff(self, subset) ==
    PayoffLoop(self, subset, [k \in 1 .. Len(subset) |-> Zero], 1)

(***************************************************************************)
(* Population.update_population: one death-birth transition                *)
(***************************************************************************)
\* np.max of a non-empty array of finite floats
RMaxSeq(s) ==
    CHOOSE x \in {s[k] : k \in 1 .. Len(s)} : \A k \in 1 .. Len(s) : ~RLt(x, s[k])

\* np.exp(x) is a positive float unless it underflows to 0.0 (x below about -745.13)
ExpUnderflowsBelow == <<-746, 1>>
ExpIsPositive(x) == RLt(ExpUnderflowsBelow, x)

\* the positions k of neighbors whose neighbor_fitness[k] is positive, that is
\* the positions np.random.choice can draw with p = fitness/sum(fitness)
DrawablePositions(self, neighbors) ==
    LET neighbor_payoffs == Payoff(self, neighbors)
        top == RMaxSeq(neighbor_payoffs)
    IN  {k \in 1 .. Len(neighbors) :
            ExpIsPositive(RMul(self.selection_intensity.q,
                               RSub(neighbor_payoffs[k], top)))}

\* np.random.rand()<self._mutation_rate/2 can come out True
MutationCanAlwaysHappen(self) == TRUE
MutationCanHappen(self) == RLt(Zero, RMul(self.mutation_rate.q, Half))

\* the assignment to self._state[death]
StateAfterKeepingDeath(self, death, birth, mutate) == self.state
StateAfterSubtractingFromTwo(self, death, birth, mutate) ==
    [self.state EXCEPT ![death] =
        IF mutate THEN 2 - self.state[birth] ELSE self.state[birth]]
StateAfterWritingAtBirth(self, death, birth, mutate) ==
    [self.state EXCEPT ![birth] =
        IF mutate THEN 1 - self.state[death] ELSE self.state[death]]
StateAfter(self, death, birth, mutate) ==
    [self.state EXCEPT ![death] =
        IF mutate THEN 1 - self.state[birth] ELSE self.state[birth]]

\* mean_frequencies[update] = self.mean_frequency(trait), after the assignment
FrequencyBeforeTransition(before, after, trait) == MeanFrequency(before, trait)
RecordedFrequency(before, after, trait) == MeanFrequency(after, trait)

NoCall == [op |-> "", trait |-> TraitNone, subset |-> <<>>, n |-> 0,
           value |-> Zero, values |-> <<>>, none |-> FALSE]
NoUpd == [trait |-> TraitNone, number_of_updates |-> 0, update |-> 0,
          mean_frequencies |-> <<>>, death |-> 0, birth |-> 0, before |-> <<>>]
NoArgs == [consumed |-> TRUE]
NoRun == [fn |-> ""]
NoEx == [stage |-> ""]

(***************************************************************************)
(* Inputs of the simulation engine                                         *)
(***************************************************************************)
MaxUpdates == 2
MaxSubset == 2
Benefit == 2
Cost == 1

Structures == {Path2, Path3, Triangle, EdgeAndIsolated}
BinaryStates(len) == [0 .. (len - 1) -> {0, 1}]
InitialStates(g) ==
    BinaryStates(g.n) \cup {[i \in 0 .. g.n |-> 0], [i \in 0 .. (g.n - 2) |-> 1]}
SocialGoods == {PyStr("ff"), PyStr("pp"), PyStr("FF"), PyStr("good"), PyInt(1)}
MutationRates ==
    {PyFloat(0, 1), PyFloat(1, 2), PyInt(1), PyInt(2), PyFloat(-1, 10), PyStr("rate")}
SelectionIntensities ==
    {PyFloat(1, 10), PyInt(0), PyInt(1000), PyInt(-1), PyStr("intensity")}
Traits == {Trait(0), Trait(1), Trait(2), TraitNone}

RECURSIVE ListsUpTo(_, _)
ListsUpTo(S, len) ==
    IF len = 0 THEN {<<>>}
    ELSE LET shorter == ListsUpTo(S, len - 1)
         IN  shorter \cup {Append(l, x) : l \in {m \in shorter : Len(m) = len - 1}, x \in S}

(***************************************************************************)
(* The simulation engine as a state machine                                *)
(***************************************************************************)
Init ==
    /\ \E structure \in Structures :
       \E state \in InitialStates(structure) :
       \E social_good \in SocialGoods :
       \E mutation_rate \in MutationRates :
       \E selection_intensity \in SelectionIntensities :
          args = [structure |-> structure, state |-> state,
                  social_good |-> social_good, b |-> Benefit, c |-> Cost,
                  mutation_rate |-> mutation_rate,
                  selection_intensity |-> selection_intensity]
    /\ pc = "new"
    /\ pop = NoPop
    /\ err = NoErr
    /\ call = NoCall
    /\ upd = NoUpd
    /\ hist = <<>>
    /\ run = NoRun
    /\ tasks = <<>>
    /\ ex = NoEx

\* pop = Population(structure, state, social_good, b, c, mutation_rate, selection_intensity)
Construct ==
    /\ pc = "new"
    /\ LET r == PopulationInit(args.structure, args.state, args.social_good, args.b,
                               args.c, args.mutation_rate, args.selection_intensity)
       IN  IF r.raised
           THEN /\ pc' = "raised"
                /\ err' = r.err
                /\ pop' = NoPop
           ELSE /\ pc' = "ready"
                /\ err' = NoErr
                /\ pop' = r.self
    /\ args' = NoArgs
    /\ UNCHANGED <<call, upd, hist, run, tasks, ex>>

\* pop.mean_frequency(trait)
MeanFrequencyCall ==
    /\ pc = "ready"
    /\ \E trait \in Traits :
          call' = [NoCall EXCEPT !.op = "mean_frequency", !.trait = trait,
                                 !.value = MeanFrequency(pop, trait)]
    /\ pc' = "returned"
    /\ UNCHANGED <<args, pop, err, upd, hist, run, tasks, ex>>

\* pop.payoff(subset)
PayoffCall ==
    /\ pc = "ready"
    /\ \E subset \in ListsUpTo(Nodes(pop.structure), MaxSubset) :
          call' = [NoCall EXCEPT !.op = "payoff", !.subset = subset,
                                 !.values = Payoff(pop, subset)]
    /\ pc' = "returned"
    /\ UNCHANGED <<args, pop, err, upd, hist, run, tasks, ex>>

\* pop.update_population(trait, number_of_updates), up to the loop
UpdateCall ==
    /\ pc = "ready"
    /\ \E trait \in Traits, number_of_updates \in 0 .. MaxUpdates :
          upd' = [trait |-> trait, number_of_updates |-> number_of_updates,
                  update |-> 0,
                  mean_frequencies |-> [k \in 1 .. number_of_updates |-> Zero],
                  death |-> 0, birth |-> 0, before |-> <<>>]
    /\ pc' = "updating"
    /\ hist' = <<>>
    /\ UNCHANGED <<args, pop, err, call, run, tasks, ex>>

\* one iteration of the loop of update_population
UpdateStep ==
    /\ pc = "updating"
    /\ upd.update < upd.number_of_updates
    /\ \E death \in Nodes(pop.structure) :
          LET neighbors == Neighbors(pop.structure, death)
          IN  IF neighbors = <<>>
              THEN \* np.max of an empty array
                   /\ pc' = "raised"
                   /\ err' = Error("ValueError", "zero-size array to reduction operation maximum")
                   /\ UNCHANGED <<pop, upd, hist>>
              ELSE \E k \in DrawablePositions(pop, neighbors), mutate \in BOOLEAN :
                      /\ mutate => MutationCanHappen(pop)
                      /\ LET after == [pop EXCEPT !.state =
                                          StateAfter(pop, death, neighbors[k], mutate)]
                         IN  /\ pop' = after
                             /\ upd' = [upd EXCEPT
                                   !.mean_frequencies[upd.update + 1] =
                                        RecordedFrequency(pop, after, upd.trait),
                                   !.update = upd.update + 1,
                                   !.death = death,
                                   !.birth = neighbors[k],
                                   !.before = pop.state]
                             /\ hist' = Append(hist, after.state)
                      /\ UNCHANGED <<pc, err>>
    /\ UNCHANGED <<args, call, run, tasks, ex>>

\* return mean_frequencies if trait!=None else None
UpdateReturn ==
    /\ pc = "updating"
    /\ upd.update = upd.number_of_updates
    /\ pc' = "returned"
    /\ call' = [NoCall EXCEPT !.op = "update_population", !.trait = upd.trait,
                              !.n = upd.number_of_updates,
                              !.none = upd.trait.none,
                              !.values = IF upd.trait.none THEN <<>>
                                         ELSE upd.mean_frequencies]
    /\ UNCHANGED <<args, pop, err, upd, hist, run, tasks, ex>>

\* the caller takes the returned value and goes on with the same object
Resume ==
    /\ pc = "returned"
    /\ pc' = "ready"
    /\ call' = NoCall
    /\ upd' = NoUpd
    /\ hist' = IF hist = <<>> THEN <<>> ELSE <<hist[Len(hist)]>>
    /\ UNCHANGED <<args, pop, err, run, tasks, ex>>

Next ==
    \/ Construct
    \/ MeanFrequencyCall
    \/ PayoffCall
    \/ UpdateCall
    \/ UpdateStep
    \/ UpdateReturn
    \/ Resume

Spec == Init /\ [][Next]_vars

(***************************************************************************)
(* Claims about the simulation engine                                      *)
(***************************************************************************)
\* the fraction of the entries of a state vector that equal the trait
FractionHolding(state, trait) ==
    Q(Cardinality({i \in DOMAIN state : ~trait.none /\ state[i] = trait.v}),
      Cardinality(DOMAIN state))

\* the rejection cases that apply to constructor arguments a
RejectionCases(a) ==
    {c \in {"state length", "good type", "good value", "rate type", "rate value",
            "intensity type", "intensity value"} :
        CASE c = "state length" -> PyLen(a.state) # a.structure.n
          [] c = "good type" -> a.social_good.type # "str"
          [] c = "good value" -> /\ a.social_good.type = "str"
                                 /\ Lower(a.social_good.s) \notin {"ff", "pp"}
          [] c = "rate type" -> a.mutation_rate.type \notin {"int", "float", "float64"}
          [] c = "rate value" -> /\ a.mutation_rate.type \in {"int", "float", "float64"}
                                 /\ \/ a.mutation_rate.q[1] < 0
                                    \/ a.mutation_rate.q[1] > a.mutation_rate.q[2]
          [] c = "intensity type" ->
                a.selection_intensity.type \notin {"int", "float", "float64"}
          [] c = "intensity value" ->
                /\ a.selection_intensity.type \in {"int", "float", "float64"}
                /\ a.selection_intensity.q[1] < 0}

\* the error each rejection case ends in
RejectionError(c) ==
    CASE c = "state length" -> Error("ValueError", "Each individual must have a state.")
      [] c = "good type" -> Error("TypeError", "Social good must be a string.")
      [] c = "good value" -> Error("ValueError", "Social good must be 'ff' or 'pp'.")
      [] c = "rate type" -> Error("TypeError", "Mutation rate must be a real number.")
      [] c = "rate value" -> Error("ValueError", "Mutation rate must be in [0, 1].")
      [] c = "intensity type" ->
            Error("TypeError", "Selection intensity must be a real number.")
      [] c = "intensity value" ->
            Error("ValueError", "Selection intensity must be non-negative.")

\* C2: constructing a Population succeeds exactly when none of the seven
\* rejection cases applies (state length, good type and value, mutation rate
\* type and value, selection intensity type and value); when one applies the
\* construction ends in the error of a case that applies, a TypeError for a
\* wrong type and a ValueError for a value out of its domain, and no
\* Population is produced.
C2_ConstructorValidates ==
    [][(pc = "new" /\ pc' # "new") =>
         /\ (pc' = "ready") <=> (RejectionCases(args) = {})
         /\ pc' = "ready" => (pop'.constructed /\ err' = NoErr)
         /\ pc' # "ready" =>
              /\ pc' = "raised"
              /\ ~pop'.constructed
              /\ \E c \in RejectionCases(args) : err' = RejectionError(c)
              /\ err'.kind = "TypeError" <=>
                    \E c \in RejectionCases(args) \cap
                             {"good type", "rate type", "intensity type"} :
                       err' = RejectionError(c)]_vars

\* a construction rejected for a mutation rate outside [0,1]
C2_Witness ==
    /\ pc = "raised"
    /\ ~pop.constructed
    /\ err = Error("ValueError", "Mutation rate must be in [0, 1].")

\* C3: when update_population(trait, number_of_updates) returns for a trait the
\* caller chose, exactly number_of_updates transitions have been made on the
\* state in place, and the returned sequence has number_of_updates values, the
\* t-th being the fraction of nodes holding the trait right after the t-th
\* transition.
C3_UpdateReturnsTrajectory ==
    (pc = "returned" /\ call.op = "update_population" /\ ~call.trait.none) =>
        /\ Len(hist) = call.n
        /\ call.n > 0 => pop.state = hist[call.n]
        /\ ~call.none
        /\ Len(call.values) = call.n
        /\ \A t \in 1 .. call.n :
              call.values[t] = FractionHolding(hist[t], call.trait)

\* a returned trajectory of two steps whose two values differ
C3_Witness ==
    /\ pc = "returned"
    /\ call.op = "update_population"
    /\ ~call.trait.none
    /\ call.n = 2
    /\ call.values[1] # call.values[2]

\* the payoff of node i as the two formulas give it
PayoffFormula(self, i) ==
    LET g == self.structure
        RECURSIVE Sum(_)
        Sum(S) == IF S = {} THEN Zero
                  ELSE LET k == CHOOSE x \in S : TRUE
                       IN  RAdd(IF self.social_good = "ff"
                                THEN Q(self.state[k] * self.b, Degree(g, k))
                                ELSE RInt(self.state[k] * self.b),
                                Sum(S \ {k}))
    IN  IF self.social_good = "ff"
        THEN RAdd(RInt(-self.c * self.state[i]), Sum(NeighborSet(g, i)))
        ELSE RAdd(RInt(-self.c * Degree(g, i) * self.state[i]), Sum(NeighborSet(g, i)))

\* C4: payoff(subset) returns a vector as long as subset whose k-th entry is
\* the payoff of node subset[k], for every list of nodes.
C4_PayoffPerEntry ==
    (pc = "returned" /\ call.op = "payoff") =>
        /\ Len(call.values) = Len(call.subset)
        /\ \A k \in 1 .. Len(call.subset) :
              call.values[k] = PayoffFormula(pop, call.subset[k])

\* the same for the lists that name no node twice
C4_PayoffPerEntryNoRepeat ==
    (/\ pc = "returned"
     /\ call.op = "payoff"
     /\ \A j, k \in 1 .. Len(call.subset) : j # k => call.subset[j] # call.subset[k]) =>
        /\ Len(call.values) = Len(call.subset)
        /\ \A k \in 1 .. Len(call.subset) :
              call.values[k] = PayoffFormula(pop, call.subset[k])

\* C5: mean_frequency(t) returns the number of nodes whose current state is t
\* divided by N, and the call changes neither the state nor any parameter.
C5_MeanFrequencyIsFraction ==
    [][(pc = "ready" /\ pc' = "returned" /\ call'.op = "mean_frequency") =>
         /\ pop' = pop
         /\ call'.value = FractionHolding(pop.state, call'.trait)]_vars

\* a mean frequency strictly between 0 and 1 read after an update run
C5_Witness ==
    /\ pc = "returned"
    /\ call.op = "mean_frequency"
    /\ hist # <<>>
    /\ hist[1] = pop.state
    /\ call.value \notin {Zero, One}

\* an iteration of the loop of update_population ran to its end
StepTaken == pc = "updating" /\ upd'.update = upd.update + 1

\* the payoffs of the neighbours of death
NeighborPayoffs(self, death) ==
    {PayoffFormula(self, nb) : nb \in NeighborSet(self.structure, death)}

\* the fitness np.exp(selection_intensity*(payoff - max payoff)) of the
\* neighbour nb of death is a positive float
FitnessPositive(self, payoffs, nb) ==
    \A p \in payoffs :
       ExpIsPositive(RMul(self.selection_intensity.q, RSub(PayoffFormula(self, nb), p)))

\* birth is a neighbour of death; the new trait of death is the trait of
\* birth before the step or its complement; no other entry changes
StepFrame ==
    LET death == upd'.death
        birth == upd'.birth
    IN  /\ death \in Nodes(pop.structure)
        /\ birth \in NeighborSet(pop.structure, death)
        /\ upd'.before = pop.state
        /\ DOMAIN pop'.state = DOMAIN pop.state
        /\ pop'.state[death] \in {pop.state[birth], 1 - pop.state[birth]}
        /\ \A i \in DOMAIN pop.state : i # death => pop'.state[i] = pop.state[i]
        /\ Cardinality({i \in DOMAIN pop.state : pop'.state[i] # pop.state[i]}) <= 1

\* C11 as stated: in every death-birth step birth is a neighbour of death,
\* every neighbour of death has positive fitness, death takes the trait of
\* birth or its complement as they were before the step, and no other node
\* changes.
C11_DeathBirthStep ==
    [][StepTaken =>
          /\ StepFrame
          /\ LET payoffs == NeighborPayoffs(pop, upd'.death)
             IN  \A nb \in NeighborSet(pop.structure, upd'.death) :
                    FitnessPositive(pop, payoffs, nb)]_vars

\* C11 as the code has it: the frame of the step as stated; of the fitness
\* only that the neighbour drawn as birth has a positive one, as has every
\* neighbour of the largest payoff, and every neighbour when
\* selection_intensity times the largest payoff gap among the neighbours stays
\* above the underflow threshold of np.exp.
C11_DeathBirthStepDrawn ==
    [][StepTaken =>
          /\ StepFrame
          /\ LET payoffs == NeighborPayoffs(pop, upd'.death)
             IN  /\ FitnessPositive(pop, payoffs, upd'.birth)
                 /\ \A nb \in NeighborSet(pop.structure, upd'.death) :
                       (\A p \in payoffs : ~RLt(PayoffFormula(pop, nb), p))
                          => FitnessPositive(pop, payoffs, nb)]_vars

\* a step that changed the state while a neighbour of death had fitness 0.0
C11_Witness ==
    /\ pc = "updating"
    /\ upd.update > 0
    /\ pop.state # upd.before
    /\ LET self == [pop EXCEPT !.state = upd.before]
           payoffs == NeighborPayoffs(self, upd.death)
       IN  \E nb \in NeighborSet(pop.structure, upd.death) :
              ~FitnessPositive(self, payoffs, nb)

\* C12: on a graph with a node of degree 0 the failure of an update run never
\* arises after steps of that run were made: the graph is rejected before the
\* first step.
C12_IsolatedNodeRejectedAtEntry ==
    (pc = "raised" /\ pop.constructed /\ HasIsolatedNode(pop.structure)) =>
        (upd.update = 0 /\ hist = <<>>)

\* a Population on a graph with a node of degree 0 is never constructed
C12_IsolatedNodeRejectedByConstructor ==
    pop.constructed => ~HasIsolatedNode(pop.structure)

\* x lies in [0,1] and is a multiple of 1/n
FractionOfN(x, n) ==
    /\ IsFinite(x)
    /\ ~RLt(x, Zero)
    /\ ~RLt(One, x)
    /\ n % x[2] = 0

\* C13: from an initial state of length N with entries in {0,1}, after any
\* number of death-birth steps the state has length N and entries in {0,1},
\* mean_frequency(0) + mean_frequency(1) = 1, and every value recorded in and
\* returned as the trajectory lies in [0,1] and is a multiple of 1/N.
C13_StateStaysBinary ==
    pop.constructed =>
        /\ pop.state \in BinaryStates(pop.structure.n)
        /\ \A t \in 1 .. Len(hist) : hist[t] \in BinaryStates(pop.structure.n)
        /\ RAdd(MeanFrequency(pop, Trait(0)), MeanFrequency(pop, Trait(1))) = One
        /\ (pc \in {"updating", "raised"} /\ ~upd.trait.none) =>
              \A t \in 1 .. upd.update :
                 FractionOfN(upd.mean_frequencies[t], pop.structure.n)
        /\ (pc = "returned" /\ call.op = "update_population" /\ ~call.trait.none) =>
              \A t \in 1 .. Len(call.values) :
                 FractionOfN(call.values[t], pop.structure.n)

\* a returned trajectory of two steps, the second of which changed the state
\* and left both traits present
C13_Witness ==
    /\ pc = "returned"
    /\ call.op = "update_population"
    /\ call.trait = Trait(1)
    /\ call.n = 2
    /\ hist[1] # hist[2]
    /\ call.values[2] \notin {Zero, One}

\* every node holds the same trait
Monomorphic(state) == \A i, j \in DOMAIN state : state[i] = state[j]

TraitsHeld(state) == {state[i] : i \in DOMAIN state}

\* an iteration of the loop is about to run on a node that has a neighbour
StepPending ==
    /\ pc = "updating"
    /\ upd.update < upd.number_of_updates
    /\ ~HasIsolatedNode(pop.structure)

RECURSIVE ToSeq(_, _)
ToSeq(f, n) == IF n = 0 THEN <<>> ELSE Append(ToSeq(f, n - 1), f[n])

Transpose(X) ==
    ToSeq([i \in 1 .. Len(X) |-> ToSeq([j \in 1 .. Len(X) |-> X[j][i]], Len(X))], Len(X))
Eye(i, j) == IF i = j THEN One ELSE Zero
\* the product of two entries of sparse matrices: an entry that is not stored
\* in the left operand stays zero
SparseMul(x, y) == IF x = Zero THEN Zero ELSE RMul(x, y)

\* random_walk_probabilities(structure)
RandomWalkProbabilities(structure) ==
    LET n == structure.n
        w == ToSeq([i \in 1 .. n |-> ToSeq([j \in 1 .. n |->
                 IF i # j /\ {i - 1, j - 1} \in structure.edges THEN One ELSE Zero], n)], n)
        A == ToSeq([i \in 1 .. n |-> ToSeq([j \in 1 .. n |->
                 SparseMul(w[i][j], RInv(RSumSeq(w[i])))], n)], n)
        e == ToSeq([i \in 1 .. n |-> ToSeq([j \in 1 .. n |->
                 RDiv(A[j][i], RInt(n))], n)], n)
        d == ToSeq([k \in 1 .. n |-> RSumSeq(ToSeq([i \in 1 .. n |-> e[i][k]], n))], n)
    IN  [w |-> w, A |-> A, e |-> e, d |-> d]

\* Gauss-Jordan elimination on the augmented rows aug (n rows of n+1 entries),
\* from column col on: the solution of a nonsingular system in exact arithmetic
RECURSIVE GaussJordan(_, _, _)
GaussJordan(aug, col, n) ==
    IF col > n
    THEN [singular |-> FALSE, x |-> ToSeq([i \in 1 .. n |-> aug[i][n + 1]], n)]
    ELSE LET cand == {r \in col .. n : aug[r][col] # Zero}
         IN  IF cand = {}
             THEN [singular |-> TRUE, x |-> ToSeq([i \in 1 .. n |-> NaN], n)]
             ELSE LET p == CHOOSE r \in cand : \A q \in cand : r <= q
                      swapped == [aug EXCEPT ![col] = aug[p], ![p] = aug[col]]
                      piv == swapped[col][col]
                      prow == ToSeq([j \in 1 .. (n + 1) |->
                                       RDiv(swapped[col][j], piv)], n + 1)
                      next == ToSeq([i \in 1 .. n |->
                                 IF i = col THEN prow
                                 ELSE ToSeq([j \in 1 .. (n + 1) |->
                                        RSub(swapped[i][j],
                                             RMul(swapped[i][col], prow[j]))], n + 1)], n)
                  IN  GaussJordan(next, col + 1, n)

Augmented(M, b) ==
    ToSeq([i \in 1 .. Len(M) |-> Append(M[i], b[i])], Len(M))

\* the two things the LU factorisation can do with a singular matrix: meet an
\* exactly zero pivot, and then the solution is filled with nan (with a
\* MatrixRankWarning, no exception), or meet a pivot that rounding left tiny
\* but nonzero, and then substitution goes through (a zero right-hand side
\* gives the zero vector)
SingularOutcomes == {"zero pivot", "rounded pivot"}

\* sp.linalg.spsolve(M, b)
SpSolve(M, b, lu) ==
    LET r == GaussJordan(Augmented(M, b), 1, Len(M))
    IN  IF ~r.singular THEN r.x
        ELSE IF lu = "rounded pivot" /\ \A i \in 1 .. Len(b) : b[i] = Zero
        THEN ToSeq([i \in 1 .. Len(M) |-> Zero], Len(M))
        ELSE r.x

\* sp.linalg.lsqr(M, b)[0]: the least-squares solution, that is the solution
\* of the normal equations M^T M x = M^T b, reached up to the tolerance of the
\* iteration; it is computed here as M x = z with M^T z = M^T b
LsqrSolve(M, b) ==
    LET n == Len(M)
        Mt == Transpose(M)
        Mtb == ToSeq([i \in 1 .. n |->
                  RSumSeq(ToSeq([k \in 1 .. n |-> RMul(Mt[i][k], b[k])], n))], n)
        z == GaussJordan(Augmented(Mt, Mtb), 1, n).x
    IN  GaussJordan(Augmented(M, z), 1, n).x

\* the right-hand side of the system of location_weights
LocationRhsWithoutRate(mu, n) == RDiv(One, RInt(n))
LocationRhs(mu, n) == RDiv(RMul(mu, One), RInt(n))

\* location_weights(e, d, mutation_rate)
LocationWeights(e, d, mutation_rate, lu) ==
    LET population_size == Len(e)
        n == population_size
        mu == mutation_rate.q
        tilde_A == ToSeq([i \in 1 .. n |-> ToSeq([k \in 1 .. n |->
                      RSub(Eye(i, k),
                           RMul(RSub(One, mu), SparseMul(e[k][i], RInv(d[k]))))], n)], n)
        tilde_v == SpSolve(Transpose(tilde_A),
                           ToSeq([i \in 1 .. n |-> LocationRhs(mu, n)], n), lu)
    IN  ToSeq([k \in 1 .. n |-> RDiv(tilde_v[k], d[k])], n)

\* sp.kron(X, Y) at Python position (r, s), for N x N factors
Kron(X, Y, N, r, s) == RMul(X[(r \div N) + 1][(s \div N) + 1], Y[(r % N) + 1][(s % N) + 1])

\* the matrix (1/2)(kron(I, A) + kron(A, I)) is weighted with, at Python
\* position (r, s)
PairWalkOneSided(A, N, r, s) ==
    LET I == ToSeq([i \in 1 .. N |-> ToSeq([j \in 1 .. N |-> Eye(i, j)], N)], N)
    IN  RAdd(Kron(I, A, N, r, s), Kron(I, A, N, r, s))
PairWalk(A, N, r, s) ==
    LET I == ToSeq([i \in 1 .. N |-> ToSeq([j \in 1 .. N |-> Eye(i, j)], N)], N)
    IN  RAdd(Kron(I, A, N, r, s), Kron(A, I, N, r, s))

\* x.reshape((N, N), order='F') at Python position (a, b)
ReshapeF(x, N, a, b) == x[(a + b * N) + 1]

\* identity_by_state_probabilities(A, mutation_rate, solver)
IdentityByStateProbabilities(A, mutation_rate, solver, lu) ==
    LET population_size == Len(A)
        N == population_size
        mu == mutation_rate.q
        diag(r) == (r \div N) = (r % N)      \* r = i*N + i for some i
        M == ToSeq([r1 \in 1 .. N * N |-> ToSeq([s1 \in 1 .. N * N |->
                 IF diag(r1 - 1) THEN Eye(r1, s1)
                 ELSE RSub(Eye(r1, s1),
                           RMul(RMul(RSub(One, mu), Half),
                                PairWalk(A, N, r1 - 1, s1 - 1)))], N * N)], N * N)
        b == ToSeq([r1 \in 1 .. N * N |->
                 IF diag(r1 - 1) THEN One ELSE RMul(mu, Half)], N * N)
    IN  IF ~IsStr(solver)
        THEN [raised |-> TRUE, err |-> Error("TypeError", "Solver must be a string."),
              phi |-> <<>>]
        ELSE IF Lower(solver.s) \notin {"spsolve", "lsqr"}
        THEN [raised |-> TRUE,
              err |-> Error("ValueError", "Solver must be 'spsolve' or 'lsqr'."),
              phi |-> <<>>]
        ELSE LET x == IF Lower(solver.s) = "spsolve" THEN SpSolve(M, b, lu)
                      ELSE LsqrSolve(M, b)
             IN  [raised |-> FALSE, err |-> NoErr,
                  phi |-> ToSeq([a1 \in 1 .. N |-> ToSeq([b1 \in 1 .. N |->
                             ReshapeF(x, N, a1 - 1, b1 - 1)], N)], N)]

\* marginal_fecundity_effects(A): m[j] at row r, column c
MarginalFecundityEffects(A) ==
    LET n == Len(A)
    IN  ToSeq([j \in 1 .. n |-> ToSeq([r \in 1 .. n |-> ToSeq([c \in 1 .. n |->
            RAdd(RNeg(RDiv(SparseMul(A[r][c], A[r][j]), RInt(n))),
                 IF c = j THEN RDiv(A[r][j], RInt(n)) ELSE Zero)], n)], n)], n)

SumTo(f, n) == RSumSeq(ToSeq(f, n))

\* 1/(2*mutation_rate): a Python int or float raises ZeroDivisionError at 0,
\* a NumPy float64 gives inf with a RuntimeWarning
HalfOverRateRaisesForAnyZero(mutation_rate) == mutation_rate.q = Zero
HalfOverRateRaises(mutation_rate) ==
    mutation_rate.q = Zero /\ mutation_rate.type \in {"int", "float"}
HalfOverRate(mutation_rate) == RInv(RMul(RInt(2), mutation_rate.q))

\* structure_coefficients(structure, mutation_rate, solver), from the loop on
StructureCoefficientsLoop(e, m, v, phi, mutation_rate) ==
    LET n == Len(e)
        mu == mutation_rate.q
        scale == HalfOverRate(mutation_rate)
        vm(j, c) == SumTo([r \in 1 .. n |-> RMul(v[r], m[j][r][c])], n)
        term1(j, c) == SumTo([r \in 1 .. n |-> RMul(v[r], RMul(m[j][r][c], phi[r][c]))], n)
        term2(j, c, k) == SumTo([r \in 1 .. n |-> RMul(RMul(v[r], m[j][r][c]), phi[r][k])], n)
        term3(j, c) == RMul(vm(j, c), phi[j][c])
        term4(j, c, k) == RMul(vm(j, c), phi[j][k])
        term5(j) == RDiv(SumTo([c \in 1 .. n |-> vm(j, c)], n), RInt(n))
        K1j(j, c, k) ==
            RMul(scale,
                 RAdd(RAdd(RNeg(RAdd(term1(j, c), term2(j, c, k))),
                           RMul(RSub(One, mu), RAdd(term3(j, c), term4(j, c, k)))),
                      term5(j)))
        K2j(j, c, k) ==
            RMul(scale,
                 RAdd(RNeg(RSub(term1(j, c), term2(j, c, k))),
                      RMul(RSub(One, mu), RSub(term3(j, c), term4(j, c, k)))))
    IN  [K1 |-> ToSeq([c \in 1 .. n |-> ToSeq([k \in 1 .. n |->
                   SumTo([j \in 1 .. n |-> K1j(j, c, k)], n)], n)], n),
         K2 |-> ToSeq([c \in 1 .. n |-> ToSeq([k \in 1 .. n |->
                   SumTo([j \in 1 .. n |-> K2j(j, c, k)], n)], n)], n)]

\* frequency_derivative(K1, K2, w, A, b, c, social_good), social_good 'ff' or 'pp'
FrequencyDerivative(K1, K2, w, A, b, c, social_good) ==
    LET n == Len(A)
        trace_minus == SumTo([i \in 1 .. n |->
                          SumTo([k \in 1 .. n |->
                             RMul(A[i][k], RSub(K1[k][i], K2[k][i]))], n)], n)
        trace_plus == SumTo([i \in 1 .. n |->
                          SumTo([k \in 1 .. n |->
                             RMul(A[k][i], RAdd(K1[k][i], K2[k][i]))], n)], n)
        K1_pp == SumTo([i \in 1 .. n |->
                    SumTo([k \in 1 .. n |-> RMul(K1[i][k], w[i][k])], n)], n)
        K2_pp == SumTo([i \in 1 .. n |->
                    SumTo([k \in 1 .. n |-> RMul(K2[i][k], w[i][k])], n)], n)
    IN  IF social_good = "ff"
        THEN RMul(Half, RSub(RMul(trace_minus, RInt(b)), RMul(trace_plus, RInt(c))))
        ELSE RMul(Half, RSub(RMul(RSub(K1_pp, K2_pp), RInt(b)),
                             RMul(RAdd(K1_pp, K2_pp), RInt(c))))

(***************************************************************************)
(* One exact calculation, run_single_calculation(mutation_rate), as a      *)
(* state machine over the calls it makes                                   *)
(***************************************************************************)
ExactStructures == {Path2, Path3, Triangle}
ExactRates ==
    {NpFloat(1, 10), NpFloat(1, 2), NpFloat(1, 1), NpFloat(0, 1), PyFloat(0, 1),
     PyFloat(1, 4), NpFloat(3, 2)}
Solvers == {PyStr("spsolve"), PyStr("lsqr"), PyStr("LSQR"), PyStr("cg"), PyInt(1)}
\* the rate 1/10 on the triangle takes the exact rationals of the 9 x 9
\* system past the integers of the model checker, and is left out
ExactInputs ==
    {in \in ExactStructures \X ExactRates :
        ~(in[1] = Triangle /\ in[2].q = Q(1, 10))}

ExFrame(structure, mutation_rate, solver) ==
    [stage |-> "start", structure |-> structure, mutation_rate |-> mutation_rate,
     solver |-> solver, w |-> <<>>, A |-> <<>>, e |-> <<>>, d |-> <<>>, m |-> <<>>,
     v |-> <<>>, phi |-> <<>>, K1 |-> <<>>, K2 |-> <<>>, ff |-> Zero, pp |-> Zero,
     err |-> NoErr]

InitExact ==
    /\ \E in \in ExactInputs, solver \in Solvers :
          ex = ExFrame(in[1], in[2], solver)
    /\ args = NoArgs
    /\ pc = "exact"
    /\ pop = NoPop
    /\ err = NoErr
    /\ call = NoCall
    /\ upd = NoUpd
    /\ hist = <<>>
    /\ run = NoRun
    /\ tasks = <<>>

ExKeep == UNCHANGED <<args, pc, pop, err, call, upd, hist, run, tasks>>

\* w, A, e, d = random_walk_probabilities(structure)
ExRandomWalk ==
    /\ ex.stage = "start"
    /\ LET r == RandomWalkProbabilities(ex.structure)
       IN  ex' = [ex EXCEPT !.stage = "walk", !.w = r.w, !.A = r.A, !.e = r.e, !.d = r.d]
    /\ ExKeep

\* m = marginal_fecundity_effects(A)
ExFecundity ==
    /\ ex.stage = "walk"
    /\ ex' = [ex EXCEPT !.stage = "fecundity", !.m = MarginalFecundityEffects(ex.A)]
    /\ ExKeep

\* v = location_weights(e, d, mutation_rate).reshape(1, -1)
ExLocationWeights ==
    /\ ex.stage = "fecundity"
    /\ \E lu \in SingularOutcomes :
          ex' = [ex EXCEPT !.stage = "weights",
                           !.v = LocationWeights(ex.e, ex.d, ex.mutation_rate, lu)]
    /\ ExKeep

\* phi = identity_by_state_probabilities(A, mutation_rate, solver)
ExIdentityByState ==
    /\ ex.stage = "weights"
    /\ \E lu \in SingularOutcomes :
          LET r == IdentityByStateProbabilities(ex.A, ex.mutation_rate, ex.solver, lu)
          IN  IF r.raised
              THEN ex' = [ex EXCEPT !.stage = "raised", !.err = r.err]
              ELSE ex' = [ex EXCEPT !.stage = "identity", !.phi = r.phi]
    /\ ExKeep

\* the loop of structure_coefficients that accumulates K1 and K2
ExCoefficients ==
    /\ ex.stage = "identity"
    /\ IF HalfOverRateRaises(ex.mutation_rate)
       THEN ex' = [ex EXCEPT !.stage = "raised",
                             !.err = Error("ZeroDivisionError", "division by zero")]
       ELSE LET r == StructureCoefficientsLoop(ex.e, ex.m, ex.v, ex.phi, ex.mutation_rate)
            IN  ex' = [ex EXCEPT !.stage = "coefficients", !.K1 = r.K1, !.K2 = r.K2]
    /\ ExKeep

\* ff = frequency_derivative(..., 'ff'); pp = frequency_derivative(..., 'pp'); return ff, pp
ExDerivatives ==
    /\ ex.stage = "coefficients"
    /\ ex' = [ex EXCEPT !.stage = "done",
                 !.ff = FrequencyDerivative(ex.K1, ex.K2, ex.w, ex.A, Benefit, Cost, "ff"),
                 !.pp = FrequencyDerivative(ex.K1, ex.K2, ex.w, ex.A, Benefit, Cost, "pp")]
    /\ ExKeep

NextExact ==
    \/ ExRandomWalk
    \/ ExFecundity
    \/ ExLocationWeights
    \/ ExIdentityByState
    \/ ExCoefficients
    \/ ExDerivatives

SpecExact == InitExact /\ [][NextExact]_vars

(***************************************************************************)
(* Claims about the exact engine                                           *)
(***************************************************************************)
ExRateInUnitInterval == RLt(Zero, ex.mutation_rate.q) /\ ~RLt(One, ex.mutation_rate.q)
ExSolverValid == ex.solver.type = "str" /\ ex.solver.s \in {"spsolve", "lsqr", "LSQR"}
ExHasWeights == ex.stage \in {"weights", "identity", "coefficients", "done"}
ExHasPhi == ex.stage \in {"identity", "coefficients", "done"}

\* entry k of the row vector N * (v*d) * (I - (1-mu)*A)
WeightedRow(k) ==
    LET n == Len(ex.A)
        mu == ex.mutation_rate.q
    IN  RMul(RInt(n),
             SumTo([i \in 1 .. n |->
                     RMul(RMul(ex.v[i], ex.d[i]),
                          RSub(Eye(i, k), RMul(RSub(One, mu), ex.A[i][k])))], n))

\* round(x, 4) = 1.0, for a finite x
RoundsToOne(x) ==
    /\ IsFinite(x)
    /\ ~RLt(x, Q(19999, 20000))
    /\ ~RLt(Q(20001, 20000), x)

\* C7 as stated: at mutation rate 0 the exact calculation, given a valid
\* solver, ends in an error that is not an invalid-argument error, and no
\* frequency effect is returned.
C7_ZeroRateEndsInSingularityError ==
    (ex.mutation_rate.q = Zero /\ ExSolverValid /\ ex.stage \in {"done", "raised"}) =>
        /\ ex.stage = "raised"
        /\ ex.err.kind \notin {"TypeError", "ValueError"}

\* C7 as the code has it: at mutation rate 0, with a valid solver,
\* location_weights raises nothing and returns a vector of nan or of zeros;
\* structure_coefficients raises ZeroDivisionError exactly when the rate is a
\* Python int or float; with a NumPy float64 rate the calculation returns, and
\* returns nan for both frequency effects.
C7_ZeroRateGivesNoFiniteValue ==
    (ex.mutation_rate.q = Zero /\ ExSolverValid) =>
        /\ ExHasWeights =>
              \/ \A k \in 1 .. Len(ex.v) : ex.v[k] = NaN
              \/ \A k \in 1 .. Len(ex.v) : ex.v[k] = Zero
        /\ ex.stage = "raised" =>
              /\ ex.err.kind = "ZeroDivisionError"
              /\ ex.mutation_rate.type \in {"int", "float"}
              /\ ex.phi # <<>>
        /\ ex.stage \in {"coefficients", "done"} => ex.mutation_rate.type = "float64"
        /\ ex.stage = "done" => (ex.ff = NaN /\ ex.pp = NaN)

\* a calculation at rate 0 that returned nan
C7_Witness ==
    /\ ex.stage = "done"
    /\ ex.mutation_rate.q = Zero
    /\ ex.ff = NaN

C9_TestLocationWeights ==
    (ExHasWeights /\ ExRateInUnitInterval /\ ~HasIsolatedNode(ex.structure)) =>
        \A k \in 1 .. Len(ex.v) : RoundsToOne(WeightedRow(k))

\* (A*phi)[i][j]
APhi(i, j) ==
    SumTo([k \in 1 .. Len(ex.A) |-> RMul(ex.A[i][k], ex.phi[k][j])], Len(ex.A))

\* C10: for mu in (0,1] and both solvers, phi has ones on its diagonal and
\* satisfies phi[i][j] = mu/2 + ((1-mu)/2)*((A*phi)[i][j] + (A*phi)[j][i]) off
\* it; and phi[i][j] = phi[j][i], so that reading the solution vector with the
\* pair index i*N+j of the system and with the column-major reshape agree.
C10_IdentityByStateRecursion ==
    (ExHasPhi /\ ExRateInUnitInterval) =>
        LET n == Len(ex.phi)
            mu == ex.mutation_rate.q
        IN  \A i, j \in 1 .. n :
               /\ i = j => ex.phi[i][j] = One
               /\ i # j =>
                    ex.phi[i][j] =
                       RAdd(RMul(mu, Half),
                            RMul(RMul(RSub(One, mu), Half), RAdd(APhi(i, j), APhi(j, i))))
               /\ ex.phi[i][j] = ex.phi[j][i]

\* identity by state from the least-squares solver on the path of three
\* nodes, where neighbours and the two ends differ
C10_Witness ==
    /\ ExHasPhi
    /\ ex.solver.s = "lsqr"
    /\ ex.structure = Path3
    /\ ex.mutation_rate.q = Q(1, 10)
    /\ ex.phi[1][2] # ex.phi[1][3]

(***************************************************************************)
(* run_simulations and run_calculations: one task per mutation rate,       *)
(* mapped in parallel (joblib.Parallel), the results collected by          *)
(* np.asarray                                                              *)
(***************************************************************************)
MaxRates == 2
MaxRunUpdates == 1

\* np.mean of the array update_population returned (nan for an empty one)
NpMean(values) == RDiv(RSumSeq(values), RInt(Len(values)))

\* pop.update_population(trait, number_of_updates): every outcome the random
\* draws allow, as [raised, err, values, self]
RECURSIVE UpdatePopulation(_, _, _)
UpdatePopulation(self, trait, number_of_updates) ==
    IF number_of_updates = 0
    THEN {[raised |-> FALSE, err |-> NoErr, values |-> <<>>, self |-> self]}
    ELSE UNION {
           IF prev.raised THEN {prev}
           ELSE UNION {
                  LET neighbors == Neighbors(prev.self.structure, death)
                  IN  IF neighbors = <<>>
                      THEN {[prev EXCEPT !.raised = TRUE,
                               !.err = Error("ValueError",
                                   "zero-size array to reduction operation maximum")]}
                      ELSE {LET after == [prev.self EXCEPT !.state =
                                   StateAfter(prev.self, death, neighbors[km[1]], km[2])]
                            IN  [prev EXCEPT
                                   !.values = Append(prev.values,
                                       RecordedFrequency(prev.self, after, trait)),
                                   !.self = after] :
                            km \in {x \in DrawablePositions(prev.self, neighbors) \X BOOLEAN :
                                       x[2] => MutationCanHappen(prev.self)}}
                  : death \in Nodes(prev.self.structure)}
           : prev \in UpdatePopulation(self, trait, number_of_updates - 1)}

\* run_single_simulation(mutation_rate): every outcome, as [raised, err, value]
RunSingleSimulation(structure, social_good, b, c, mutation_rate, selection_intensity, number_of_updates, trait) ==
    UNION {
      LET made == PopulationInit(structure, state, social_good, b, c,
                                 mutation_rate, selection_intensity)
      IN  IF made.raised
          THEN {[raised |-> TRUE, err |-> made.err, value |-> <<>>]}
          ELSE {IF o.raised
                THEN [raised |-> TRUE, err |-> o.err, value |-> <<>>]
                ELSE [raised |-> FALSE, err |-> NoErr, value |-> <<NpMean(o.values)>>] :
                o \in UpdatePopulation(made.self, trait, number_of_updates)}
      : state \in BinaryStates(structure.n)}

\* run_single_calculation(mutation_rate), as [raised, err, value]; value is
\* the pair (ff, pp)
RunSingleCalculation(structure, b, c, mutation_rate, solver, lu) ==
    LET rw == RandomWalkProbabilities(structure)
        m == MarginalFecundityEffects(rw.A)
        v == LocationWeights(rw.e, rw.d, mutation_rate, lu)
        ibs == IdentityByStateProbabilities(rw.A, mutation_rate, solver, lu)
    IN  IF ibs.raised
        THEN [raised |-> TRUE, err |-> ibs.err, value |-> <<>>]
        ELSE IF HalfOverRateRaises(mutation_rate)
        THEN [raised |-> TRUE, err |-> Error("ZeroDivisionError", "division by zero"),
              value |-> <<>>]
        ELSE LET K == StructureCoefficientsLoop(rw.e, m, v, ibs.phi, mutation_rate)
             IN  [raised |-> FALSE, err |-> NoErr,
                  value |-> <<FrequencyDerivative(K.K1, K.K2, rw.w, rw.A, b, c, "ff"),
                              FrequencyDerivative(K.K1, K.K2, rw.w, rw.A, b, c, "pp")>>]

\* the exception of a failed task, as Parallel raises it in the caller
ReraisedAsWorkerError(task) == Error("RuntimeError", "a task failed")
Reraised(task) == task.err

\* column c of np.asarray(results), the results taken in the order of the input
Column(ts, c) == [k \in 1 .. Len(ts) |-> ts[k].value[c]]

RunStructures == {Path2, Path3}
CalcStructures == {Path2}
RunRates == {NpFloat(1, 2), NpFloat(0, 1), NpFloat(3, 2)}
RateSequences == UNION {[1 .. len -> RunRates] : len \in 0 .. MaxRates}
RunSocialGoods == {PyStr("ff"), PyStr("good"), PyInt(1)}
RunSelectionIntensities == {PyFloat(1, 10), PyInt(-1)}
RunSolvers == {PyStr("spsolve"), PyStr("lsqr"), PyStr("cg"), PyInt(1)}

RunFrame(fn, structure, social_good, selection_intensity, number_of_updates, solver, mutation_rates) ==
    [fn |-> fn, stage |-> "entered", structure |-> structure,
     social_good |-> social_good, b |-> Benefit, c |-> Cost,
     selection_intensity |-> selection_intensity,
     number_of_updates |-> number_of_updates, trait |-> Trait(1),
     solver |-> solver, mutation_rates |-> mutation_rates,
     result |-> <<>>, err |-> NoErr]

\* delayed(run_single_...)(mutation_rate) for mutation_rate in mutation_rates
Delayed(mutation_rates) ==
    [k \in 1 .. Len(mutation_rates) |->
        [status |-> "pending", mutation_rate |-> mutation_rates[k],
         value |-> <<>>, err |-> NoErr]]

InitRun ==
    /\ \E mutation_rates \in RateSequences :
          /\ \/ \E structure \in RunStructures, social_good \in RunSocialGoods,
                   selection_intensity \in RunSelectionIntensities,
                   number_of_updates \in 0 .. MaxRunUpdates :
                   run = RunFrame("run_simulations", structure, social_good,
                                  selection_intensity, number_of_updates,
                                  PyStr("spsolve"), mutation_rates)
             \/ \E structure \in CalcStructures, solver \in RunSolvers :
                   run = RunFrame("run_calculations", structure, PyStr("ff"),
                                  PyInt(0), 0, solver, mutation_rates)
          /\ tasks = Delayed(mutation_rates)
    /\ args = NoArgs
    /\ pc = "run"
    /\ pop = NoPop
    /\ err = NoErr
    /\ call = NoCall
    /\ upd = NoUpd
    /\ hist = <<>>
    /\ ex = NoEx

RunKeep == UNCHANGED <<args, pc, pop, err, call, upd, hist, ex>>

TaskEnds(i, o) ==
    tasks' = [tasks EXCEPT ![i] =
                 IF o.raised
                 THEN [@ EXCEPT !.status = "raised", !.err = o.err]
                 ELSE [@ EXCEPT !.status = "done", !.value = o.value]]

\* Parallel hands the next task of the iterable to a worker
TaskStart(i) ==
    /\ run.stage = "entered"
    /\ tasks[i].status = "pending"
    /\ \A j \in 1 .. (i - 1) : tasks[j].status # "pending"
    /\ tasks' = [tasks EXCEPT ![i].status = "started"]
    /\ UNCHANGED run
    /\ RunKeep

\* a worker runs run_single_simulation to its end
SimulationTask(i) ==
    /\ run.stage = "entered"
    /\ run.fn = "run_simulations"
    /\ tasks[i].status = "started"
    /\ \E o \in RunSingleSimulation(run.structure, run.social_good, run.b, run.c,
                                    tasks[i].mutation_rate, run.selection_intensity,
                                    run.number_of_updates, run.trait) :
          TaskEnds(i, o)
    /\ UNCHANGED run
    /\ RunKeep

\* a worker runs run_single_calculation to its end
CalculationTask(i) ==
    /\ run.stage = "entered"
    /\ run.fn = "run_calculations"
    /\ tasks[i].status = "started"
    /\ \E lu \in SingularOutcomes :
          TaskEnds(i, RunSingleCalculation(run.structure, run.b, run.c,
                                           tasks[i].mutation_rate, run.solver, lu))
    /\ UNCHANGED run
    /\ RunKeep

\* Parallel raises the exception of a failed task in the caller
RunRaise(i) ==
    /\ run.stage = "entered"
    /\ tasks[i].status = "raised"
    /\ run' = [run EXCEPT !.stage = "raised", !.err = Reraised(tasks[i])]
    /\ UNCHANGED tasks
    /\ RunKeep

\* every task returned: np.asarray of the list of results and, in
\* run_calculations, the two columns of it
RunReturn ==
    /\ run.stage = "entered"
    /\ \A i \in 1 .. Len(tasks) : tasks[i].status = "done"
    /\ IF run.fn = "run_simulations"
       THEN run' = [run EXCEPT !.stage = "returned", !.result = <<Column(tasks, 1)>>]
       ELSE IF Len(tasks) = 0
       THEN \* np.asarray([]) has one dimension
            run' = [run EXCEPT !.stage = "raised",
                       !.err = Error("IndexError", "too many indices for array")]
       ELSE run' = [run EXCEPT !.stage = "returned",
                       !.result = <<Column(tasks, 1), Column(tasks, 2)>>]
    /\ UNCHANGED tasks
    /\ RunKeep

NextRun ==
    \/ \E i \in 1 .. Len(tasks) : TaskStart(i)
    \/ \E i \in 1 .. Len(tasks) : SimulationTask(i)
    \/ \E i \in 1 .. Len(tasks) : CalculationTask(i)
    \/ \E i \in 1 .. Len(tasks) : RunRaise(i)
    \/ RunReturn

SpecRun == InitRun /\ [][NextRun]_vars

(***************************************************************************)
(* Claims about the two runners                                            *)
(***************************************************************************)
RunEnded == run.stage \in {"returned", "raised"}

\* every returned array is as long as the input and holds at k what the task
\* of the k-th mutation rate returned
RunAligned ==
    /\ Len(run.result) = (IF run.fn = "run_simulations" THEN 1 ELSE 2)
    /\ \A c \in 1 .. Len(run.result) :
          /\ DOMAIN run.result[c] = 1 .. Len(run.mutation_rates)
          /\ \A k \in 1 .. Len(run.mutation_rates) :
                /\ tasks[k].mutation_rate = run.mutation_rates[k]
                /\ run.result[c][k] = tasks[k].value[c]

\* C1: for every sequence of mutation rates, the empty one included, a run
\* none of whose tasks failed returns arrays as long as the sequence whose k-th
\* entry is the result of the task of the k-th rate, in whatever order the
\* tasks finished.
C1_ResultsIndexAligned ==
    (RunEnded /\ \A i \in 1 .. Len(tasks) : tasks[i].status = "done") =>
        (run.stage = "returned" /\ RunAligned)

\* the same for the sequences that are not empty, and for run_simulations
C1_ResultsIndexAlignedNonEmpty ==
    (/\ RunEnded
     /\ \A i \in 1 .. Len(tasks) : tasks[i].status = "done"
     /\ (run.mutation_rates # <<>> \/ run.fn = "run_simulations")) =>
        (run.stage = "returned" /\ RunAligned)

IsValidationError(e) ==
    /\ e.kind \in {"TypeError", "ValueError"}
    /\ e.msg # "zero-size array to reduction operation maximum"

RateOutsideUnitInterval(mutation_rate) ==
    RLt(mutation_rate.q, Zero) \/ RLt(One, mutation_rate.q)

GoodInvalid == ~(run.social_good.type = "str" /\ run.social_good.s \in {"ff", "pp"})
SolverInvalid == ~(run.solver.type = "str" /\ run.solver.s \in {"spsolve", "lsqr"})
IntensityInvalid == RLt(run.selection_intensity.q, Zero)

\* an argument of the run is one of the invalid ones of the claim
RunArgumentInvalid ==
    \/ run.fn = "run_simulations" /\ (GoodInvalid \/ IntensityInvalid)
    \/ run.fn = "run_calculations" /\ SolverInvalid
    \/ \E k \in 1 .. Len(run.mutation_rates) :
          RateOutsideUnitInterval(run.mutation_rates[k])

\* C6 as stated: a run with an invalid argument starts no task, and no task
\* raises a validation error.
C6_ValidationAtEntry ==
    /\ RunArgumentInvalid => \A i \in 1 .. Len(tasks) : tasks[i].status = "pending"
    /\ \A i \in 1 .. Len(tasks) :
          tasks[i].status = "raised" => ~IsValidationError(tasks[i].err)

\* C6 as the code has it: the runners check nothing at entry.  A run ends in
\* an error only by the failure of one of its started tasks, whose exception
\* it raises unchanged (or by the indexing of an empty result).  A task of
\* run_simulations fails with a validation error exactly when the good, the
\* selection intensity or its own mutation rate is invalid; a task of
\* run_calculations exactly when the solver is, whatever its mutation rate.
\* With no mutation rate there is no task and no validation error.
C6_ValidationInsideTasks ==
    /\ run.stage = "raised" =>
          \/ run.err.kind = "IndexError" /\ run.mutation_rates = <<>>
          \/ \E i \in 1 .. Len(tasks) :
                tasks[i].status = "raised" /\ run.err = tasks[i].err
    /\ \A i \in 1 .. Len(tasks) :
          tasks[i].status \in {"done", "raised"} =>
             ((tasks[i].status = "raised" /\ IsValidationError(tasks[i].err))
                <=> IF run.fn = "run_simulations"
                    THEN \/ GoodInvalid
                         \/ IntensityInvalid
                         \/ RateOutsideUnitInterval(tasks[i].mutation_rate)
                    ELSE SolverInvalid)
    /\ run.mutation_rates = <<>> => ~IsValidationError(run.err)

\* a run ended by the validation error of one task after another task had
\* run to its end
C6_Witness ==
    /\ run.stage = "raised"
    /\ IsValidationError(run.err)
    /\ \E i, j \in 1 .. Len(tasks) :
          /\ tasks[i].status = "raised"
          /\ tasks[i].err = run.err
          /\ tasks[j].status = "done"

====
